---- MODULE Spec2Model ----
(***************************************************************************)
(* Model of autoplay/autoplay.js: a pool of bot players, each holding one  *)
(* websocket connection to the game server, answering the prompt carried   *)
(* by the latest state update after a fixed delay.                         *)
(*                                                                         *)
(* Time is counted in seconds: one Tick is 1000 ms.  A timer whose `rem`   *)
(* is 0 is due; time does not advance while a timer is due, but any other  *)
(* event of the same instant may still be handled before its callback.     *)
(***************************************************************************)
EXTENDS Integers, Sequences, FiniteSets, TLC

\* ------------------------------------------------------------------------
\* Program constants
\* ------------------------------------------------------------------------
ACTION_DELAY == 3

RECONNECT_DELAY == 5

players == <<"ALEX", "BOB", "CHARLIE", "DAVID", "ED", "FRED", "GEORGE", "HARRY", "IJ">>

\* ------------------------------------------------------------------------
\* Bounds of the model
\* ------------------------------------------------------------------------
NumPlayers == 1

PoolPlayers == 2

MaxIdLen == 5

MaxChoices == 2

MaxCards == 3

\* ------------------------------------------------------------------------
\* JavaScript values
\* ------------------------------------------------------------------------
Undefined == [k |-> "undefined"]

Null == [k |-> "null"]

Str(s) == [k |-> "string", s |-> s]

Bool(b) == [k |-> "boolean", b |-> b]

\* Truthy taking an absent value for true
TruthyUnlessFalse(v) == v # Bool(FALSE)

\* v is truthy (only undefined and booleans are ever tested)
Truthy(v) == v = Bool(TRUE)

\* arr[i] for a 0-based index: <<x>> when present, <<>> when undefined
At(arr, i) == IF (i + 1) \in DOMAIN arr THEN <<arr[i + 1]>> ELSE <<>>

\* obj[name], undefined when the object has no such property
Field(obj, name) == IF name \in DOMAIN obj THEN obj[name] ELSE Undefined

Return(v) == [kind |-> "return", value |-> v]

Throw == [kind |-> "throw"]

\* Math.floor(Math.random() * n): every value it can take
RandomIndex(n) == IF n = 0 THEN {0} ELSE 0 .. (n - 1)

\* Math.random() < 0.5: every value it can take
RandomBelowHalf == BOOLEAN

\* ------------------------------------------------------------------------
\* react(msg, index): the set of outcomes of one call
\* ------------------------------------------------------------------------
\* reactChoosePlayer taking the random index for the player's index
reactChooseByPosition(action, msgPlayers) ==
    { LET chosen == At(msgPlayers, r)
      IN  IF chosen = <<>> THEN Throw ELSE Return(chosen[1].id)
      : r \in RandomIndex(Len(action.players)) }

reactChoosePlayer(action, msgPlayers) ==
    { LET choice == At(action.players, r)
          chosen == IF choice = <<>> THEN <<>> ELSE At(msgPlayers, choice[1])
      IN  IF chosen = <<>> THEN Throw ELSE Return(chosen[1].id)
      : r \in RandomIndex(Len(action.players)) }

\* reactVote answering at random
reactVoteRandom(index) == { Return(Bool(b)) : b \in RandomBelowHalf }

reactVote(index) == { Return(Bool(index % 2 = 0)) }

reactLegislative(action) ==
    (IF Truthy(Field(action, "canVeto")) /\ TRUE \in RandomBelowHalf
        THEN { Return([type |-> "veto"]) } ELSE {})
    \cup { Return([type |-> "discard", idx |-> idx]) : idx \in RandomIndex(Len(action.cards)) }

reactInvestigateParty(action, msgPlayers) ==
    { IF At(msgPlayers, action.player) = <<>> THEN Throw ELSE Return(Str("done")) }

\* reactUnknown throwing on a kind it does not know
reactUnknownThrows(action) == { Throw }

\* console.error(`Unknown action type: ...`), then the function ends
reactUnknown(action) == { Return(Undefined) }

react(msg, index) ==
    LET action == msg.action
    IN  IF action = Null THEN { Return(Undefined) }
        ELSE IF action.type = "lobby"
            THEN { Return(IF Truthy(Field(action, "canStart")) THEN Str("start") ELSE Undefined) }
        ELSE IF action.type = "nightRound" THEN { Return(Str("done")) }
        ELSE IF action.type = "choosePlayer" THEN reactChoosePlayer(action, msg.players)
        ELSE IF action.type = "vote" THEN reactVote(index)
        ELSE IF action.type = "legislative" THEN reactLegislative(action)
        ELSE IF action.type = "nextRound" THEN { Return(Str("next")) }
        ELSE IF action.type = "policyPeak" THEN { Return(Str("done")) }
        ELSE IF action.type = "investigateParty" THEN reactInvestigateParty(action, msg.players)
        ELSE IF action.type = "vetoConsent" THEN { Return(Bool(b)) : b \in RandomBelowHalf }
        ELSE IF action.type = "gameover" THEN { Return(Str("restart")) }
        ELSE reactUnknown(action)

\* react(msg) of the earlier script, unnamed/part_000
reactVoteEarlier == { Return(Bool(b)) : b \in RandomBelowHalf }

reactEarlier(msg) ==
    LET action == msg.action
    IN  IF action = Null THEN { Return(Undefined) }
        ELSE IF action.type = "lobby"
            THEN { Return(IF Truthy(Field(action, "canStart")) THEN Str("start") ELSE Undefined) }
        ELSE IF action.type = "nightRound" THEN { Return(Str("done")) }
        ELSE IF action.type = "choosePlayer" THEN reactChoosePlayer(action, msg.players)
        ELSE IF action.type = "vote" THEN reactVoteEarlier
        ELSE IF action.type = "legislative" THEN reactLegislative(action)
        ELSE IF action.type = "nextRound" THEN { Return(Str("next")) }
        ELSE reactUnknown(action)

\* ------------------------------------------------------------------------
\* Inbound traffic
\* ------------------------------------------------------------------------
\* The participants list every state update carries
statePlayers ==
    << [id |-> Str("id-a"), name |-> Str("ALEX")], [id |-> Str("id-b"), name |-> Str("BOB")],
       [id |-> Str("id-c"), name |-> Str("CHARLIE")] >>

State(action) == [action |-> action, players |-> statePlayers]

NoPrompt == State(Null)

VotePrompt == State([type |-> "vote"])

NextRoundPrompt == State([type |-> "nextRound"])

EmptyChoosePrompt == State([type |-> "choosePlayer", players |-> <<>>])

UnknownPrompt == State([type |-> "somethingElse"])

\* The state updates the server sends to a connected player
FeedStates == { NoPrompt, VotePrompt, NextRoundPrompt, EmptyChoosePrompt, UnknownPrompt }

\* Sequences over S of length 0 .. n
RECURSIVE SeqsUpTo(_, _)
SeqsUpTo(S, n) ==
    IF n = 0 THEN { <<>> }
    ELSE LET shorter == SeqsUpTo(S, n - 1)
         IN  shorter \cup { Append(q, x) : q \in { r \in shorter : Len(r) = n - 1 }, x \in S }

PlayerIndexes == 0 .. (Len(statePlayers) - 1)

Flags == { Bool(TRUE), Bool(FALSE) }

\* The prompts a state update can carry
Prompts ==
    { [type |-> "lobby"] } \cup { [type |-> "lobby", canStart |-> f] : f \in Flags }
    \cup { [type |-> t] : t \in { "nightRound", "vote", "nextRound", "policyPeak",
                                   "vetoConsent", "gameover", "somethingElse" } }
    \cup { [type |-> "choosePlayer", players |-> ps] : ps \in SeqsUpTo(PlayerIndexes, MaxChoices) }
    \cup { [type |-> "legislative", canVeto |-> f, cards |-> cs] :
               f \in Flags, cs \in SeqsUpTo({ "Liberal" }, MaxCards) }
    \cup { [type |-> "investigateParty", player |-> p, party |-> "Fascist"] :
               p \in PlayerIndexes \cup { Len(statePlayers) } }

ReactInputs == { State(action) : action \in Prompts \cup { Null } }

\* A websocket message: utf8Data is absent (a binary message), text that is
\* no JSON, or the text of a JSON value
Text(value) == [json |-> TRUE, value |-> value]

NotJson == [json |-> FALSE]

BinaryMessage == [type |-> "binary"]

Utf8Message(text) == [type |-> "utf8", utf8Data |-> text]

UpdateOf(state) == Utf8Message(Text([type |-> "update", state |-> state]))

ErrorMessage == Utf8Message(Text([type |-> "error", error |-> "Game not found"]))

OtherMessage == Utf8Message(Text([type |-> "pong"]))

UpdateWithoutState == Utf8Message(Text([type |-> "update"]))

MalformedMessages == { BinaryMessage, Utf8Message(NotJson), UpdateWithoutState }

Messages(states) == MalformedMessages \cup { ErrorMessage, OtherMessage } \cup { UpdateOf(s) : s \in states }

\* JSON.parse(msg.utf8Data)
JSONparse(msg) ==
    IF "utf8Data" \notin DOMAIN msg THEN Throw
    ELSE IF ~msg.utf8Data.json THEN Throw
    ELSE Return(msg.utf8Data.value)

\* data.state.action?.type
ActionType(state) == IF state.action = Null THEN "undefined" ELSE state.action.type

\* ------------------------------------------------------------------------
\* State
\* ------------------------------------------------------------------------
VARIABLES
    gameId,     \* process.argv[3], a sequence of characters
    roster,     \* the names main iterates over
    feed,       \* the state updates the server sends in this run
    mainPc,     \* where main is: "check", "loop", "wait", "done"
    i,          \* main's counter
    proc,       \* "running", "exited" (process.exit) or "crashed" (uncaught exception)
    agents,     \* one record per createPlayer call, in call order
    obs,        \* what the last step did, see Quiet
    thrown      \* the callback an uncaught exception came out of, if any

vars == <<gameId, roster, feed, mainPc, i, proc, agents, obs, thrown>>

\* Each field holds at most one record, and only for the step that made it:
\*   out        a conn.send call: the player, whether the connection was
\*              open, the message, and (for player_action) whether the
\*              same prompt had been answered before on this connection
\*   evaluated  a react call: its arguments and outcome, and the
\*              connection's observers at the call
\*   ended      an update that started a new burst after an earlier one,
\*              with the react calls that earlier burst got
\*   opened     a 'connect' event, with who had called connect()
\*   received   a message the 'message' handler could parse: its type
Quiet == [out |-> <<>>, evaluated |-> <<>>, ended |-> <<>>, opened |-> <<>>,
          received |-> <<>>]

\* ClearTimeout leaving a timer that is already due to run
ClearTimeoutNotDue(timers) == SelectSeq(timers, LAMBDA t : ~t.handle \/ t.rem = 0)

\* A pending timer: `handle` tells whether the variable it was assigned to
\* (timeout, reconnTimeout) still holds it
ClearTimeout(timers) == SelectSeq(timers, LAMBDA t : ~t.handle)

SetTimeout(timers, t) ==
    Append([j \in DOMAIN timers |-> [timers[j] EXCEPT !.handle = FALSE]],
           [t EXCEPT !.handle = TRUE])

Remove(seq, j) == SubSeq(seq, 1, j - 1) \o SubSeq(seq, j + 1, Len(seq))

\* The closure of one ws.on('connect') call: `open` and the pending timers
\* it set.  The other fields observe it:
\*   age       seconds since its last update (-1: none yet; counted up to
\*             ACTION_DELAY)
\*   last      the state of its last update
\*   len       the updates of the current burst (counted up to 2)
\*   evals     the react calls of the current burst
\*   sends     the player_action sends of the current burst
\*   answered  whether a player_action was sent since an update last
\*             changed the state
\*   stale     whether the player has received an update on another
\*             connection since this one's last update
\*   caller    who had called the connect() that opened it
NewConn == [open |-> TRUE, timers |-> <<>>, age |-> -1, last |-> <<>>, len |-> 0,
            evals |-> 0, sends |-> 0, answered |-> FALSE, stale |-> FALSE,
            caller |-> "createPlayer"]

\* The closure of one createPlayer call.  opening holds its WebSocket
\* clients that are connecting, each with the caller of its connect().
NewAgent(name, index) ==
    [name |-> name, index |-> index, opening |-> <<>>, conns |-> <<>>, reconnTimers |-> <<>>]

\* A closed connection with no timer left can do nothing more
Live(conns) == SelectSeq(conns, LAMBDA c : c.open \/ c.timers # <<>>)

\* connect with the connection open as soon as it is called
connectAtOnce(ag, caller) ==
    [ag EXCEPT !.conns = Append(@, [NewConn EXCEPT !.caller = caller])]

\* connect(): a new WebSocket client starts connecting
connect(ag, caller) == [ag EXCEPT !.opening = Append(@, caller)]

\* reconnect calling connect() at once as well as after the delay
reconnectAndConnect(ag) ==
    connect([ag EXCEPT !.reconnTimers =
                SetTimeout(ClearTimeout(@), [rem |-> RECONNECT_DELAY, handle |-> TRUE])],
            "reconnect")

\* reconnect()
reconnect(ag) ==
    [ag EXCEPT !.reconnTimers =
        SetTimeout(ClearTimeout(@), [rem |-> RECONNECT_DELAY, handle |-> TRUE])]

Count(n) == IF n < 2 THEN n + 1 ELSE n

ConnectionState(ag) ==
    IF \E c \in DOMAIN ag.conns : ag.conns[c].open THEN "Connected"
    ELSE IF ag.opening # <<>> THEN "Connecting"
    ELSE "Disconnected"

\* ------------------------------------------------------------------------
\* main
\* ------------------------------------------------------------------------
Upper == { "A", "B", "C", "D", "E", "F", "G", "H", "I", "J", "K", "L", "M",
           "N", "O", "P", "Q", "R", "S", "T", "U", "V", "W", "X", "Y", "Z" }

\* /[A-Z]{4}/.test(id)
TestGameId(id) ==
    \E k \in 1 .. (Len(id) - 3) : \A j \in 0 .. 3 : id[k + j] \in Upper

\* if (!/[A-Z]{4}/.test(gameId)) process.exit(1)
MainCheck ==
    /\ proc = "running" /\ mainPc = "check"
    /\ IF ~TestGameId(gameId)
          THEN proc' = "exited" /\ UNCHANGED <<mainPc, i>>
          ELSE mainPc' = "loop" /\ i' = 0 /\ UNCHANGED proc
    /\ obs' = Quiet
    /\ UNCHANGED <<gameId, roster, feed, agents, thrown>>

\* MainSpawn passing the counter after its increment (++i)
MainSpawnPreIncrement ==
    /\ proc = "running" /\ mainPc = "loop"
    /\ IF i < Len(roster)
          THEN /\ agents' = Append(agents, connect(NewAgent(roster[i + 1], i + 1), "createPlayer"))
               /\ i' = i + 1
               /\ mainPc' = "wait"
          ELSE mainPc' = "done" /\ UNCHANGED <<agents, i>>
    /\ obs' = Quiet
    /\ UNCHANGED <<gameId, roster, feed, proc, thrown>>

\* createPlayer(url, gameId, name, i++), up to its await
MainSpawn ==
    /\ proc = "running" /\ mainPc = "loop"
    /\ IF i < Len(roster)
          THEN /\ agents' = Append(agents, connect(NewAgent(roster[i + 1], i), "createPlayer"))
               /\ i' = i + 1
               /\ mainPc' = "wait"
          ELSE mainPc' = "done" /\ UNCHANGED <<agents, i>>
    /\ obs' = Quiet
    /\ UNCHANGED <<gameId, roster, feed, proc, thrown>>

\* await wait(200) resumes
MainResume ==
    /\ proc = "running" /\ mainPc = "wait"
    /\ mainPc' = "loop"
    /\ obs' = Quiet
    /\ UNCHANGED <<gameId, roster, feed, i, proc, agents, thrown>>

\* ------------------------------------------------------------------------
\* createPlayer: the callbacks of one player
\* ------------------------------------------------------------------------
PlayerJoin(ag) == [type |-> "player_join", gameId |-> gameId, name |-> ag.name]

PlayerAction(action, reply) == [type |-> "player_action", action |-> action, data |-> reply]

Send(a, conn, msg) ==
    << [agent |-> a, live |-> conn.open, msg |-> msg,
        again |-> msg.type = "player_action" /\ conn.answered] >>

\* OnConnect without its conn.send
OnConnectNoJoin(a, w) ==
    /\ proc = "running"
    /\ agents' = [agents EXCEPT
                     ![a].opening = Remove(@, w),
                     ![a].conns = Append(@, [NewConn EXCEPT !.caller = agents[a].opening[w]])]
    /\ obs' = [Quiet EXCEPT !.opened = << [agent |-> a, caller |-> agents[a].opening[w]] >>]
    /\ UNCHANGED <<gameId, roster, feed, mainPc, i, proc, thrown>>

\* ws.on('connect', conn => ...), for the w-th connecting client
OnConnect(a, w) ==
    /\ proc = "running"
    /\ agents' = [agents EXCEPT
                     ![a].opening = Remove(@, w),
                     ![a].conns = Append(@, [NewConn EXCEPT !.caller = agents[a].opening[w]])]
    /\ obs' = [Quiet EXCEPT !.out = Send(a, NewConn, PlayerJoin(agents[a])),
                            !.opened = << [agent |-> a, caller |-> agents[a].opening[w]] >>]
    /\ UNCHANGED <<gameId, roster, feed, mainPc, i, proc, thrown>>

\* ws.on('connectFailed', reconnect), for the w-th connecting client
OnConnectFailed(a, w) ==
    /\ proc = "running"
    /\ agents' = [agents EXCEPT ![a] = reconnect([@ EXCEPT !.opening = Remove(@, w)])]
    /\ obs' = Quiet
    /\ UNCHANGED <<gameId, roster, feed, mainPc, i, proc, thrown>>

\* Reschedule keeping the action of the evaluation it replaces
RescheduleKeepAction(timers, state) ==
    SetTimeout(ClearTimeout(timers),
               [rem |-> ACTION_DELAY, state |-> state,
                action |-> IF timers = <<>> THEN ActionType(state) ELSE timers[1].action,
                handle |-> TRUE])

\* Reschedule leaving the timer alone on a state with no prompt
RescheduleIfPrompt(timers, state) ==
    IF state.action = Null THEN timers
    ELSE SetTimeout(ClearTimeout(timers),
                    [rem |-> ACTION_DELAY, state |-> state, action |-> ActionType(state),
                     handle |-> TRUE])

\* Reschedule without its clearTimeout
RescheduleNoClear(timers, state) ==
    SetTimeout(timers,
               [rem |-> ACTION_DELAY, state |-> state, action |-> ActionType(state),
                handle |-> TRUE])

\* The timer part of the 'message' handler
Reschedule(timers, state) ==
    SetTimeout(ClearTimeout(timers),
               [rem |-> ACTION_DELAY, state |-> state, action |-> ActionType(state),
                handle |-> TRUE])

\* An update starts a new burst when none came before on this connection or
\* the last one came ACTION_DELAY or more ago
StartsBurst(conn) == conn.age = -1 \/ conn.age >= ACTION_DELAY

Observe(conn, state) ==
    [conn EXCEPT !.age = 0,
                 !.last = <<state>>,
                 !.len = IF StartsBurst(conn) THEN 1 ELSE Count(@),
                 !.evals = IF StartsBurst(conn) THEN 0 ELSE @,
                 !.sends = IF StartsBurst(conn) THEN 0 ELSE @,
                 !.answered = IF conn.last = <<state>> THEN @ ELSE FALSE,
                 !.stale = FALSE]

\* An exception nothing catches ends the process, and with it every player
Uncaught(a, callback, input) ==
    /\ proc' = "crashed"
    /\ thrown' = << [agent |-> a, callback |-> callback, input |-> input] >>
    /\ agents' = <<>>

\* IsUpdate taking an error message for an update too
IsUpdateOrError(data) == data.type \in { "update", "error" }

\* data.type == 'update'
IsUpdate(data) == data.type = "update"

\* conn.on('message', msg => ...)
OnMessage(a, c, msg) ==
    /\ proc = "running" /\ agents[a].conns[c].open
    /\ LET conn == agents[a].conns[c]
           parsed == JSONparse(msg)
           data == parsed.value
       IN  IF parsed = Throw \/ data = Null
             THEN Uncaught(a, "message", msg) /\ obs' = Quiet
           ELSE IF ~IsUpdate(data)
             THEN /\ obs' = [Quiet EXCEPT !.received = << [agent |-> a, type |-> data.type] >>]
                  /\ UNCHANGED <<proc, thrown, agents>>
           ELSE IF "state" \notin DOMAIN data
             THEN /\ Uncaught(a, "message", msg)
                  /\ obs' = [Quiet EXCEPT !.received = << [agent |-> a, type |-> data.type] >>]
           ELSE /\ agents' = [agents EXCEPT ![a].conns =
                                 [k \in DOMAIN @ |->
                                    IF k = c
                                      THEN [Observe(conn, data.state) EXCEPT
                                               !.timers = Reschedule(@, data.state)]
                                      ELSE [agents[a].conns[k] EXCEPT !.stale = TRUE]]]
                /\ obs' = [Quiet EXCEPT
                              !.received = << [agent |-> a, type |-> data.type] >>,
                              !.ended =
                                 IF StartsBurst(conn) /\ conn.age # -1
                                   THEN << [agent |-> a, evals |-> conn.evals] >> ELSE <<>>]
                /\ UNCHANGED <<proc, thrown>>
    /\ UNCHANGED <<gameId, roster, feed, mainPc, i>>

\* conn.on('close', reconnect)
OnClose(a, c) ==
    /\ proc = "running" /\ agents[a].conns[c].open
    /\ agents' = [agents EXCEPT ![a] =
                     reconnect([@ EXCEPT !.conns = Live([@ EXCEPT ![c].open = FALSE])])]
    /\ obs' = Quiet
    /\ UNCHANGED <<gameId, roster, feed, mainPc, i, proc, thrown>>

\* The setTimeout callback of the 'message' handler
OnTimeout(a, c, t) ==
    /\ proc = "running" /\ agents[a].conns[c].timers[t].rem = 0
    /\ LET ag == agents[a]
           conn == ag.conns[c]
           tm == conn.timers[t]
       IN  \E reply \in react(tm.state, ag.index) :
             LET sent == reply # Throw /\ reply.value # Undefined
                 after == [conn EXCEPT !.timers = Remove(@, t),
                                       !.evals = Count(@),
                                       !.sends = IF sent THEN Count(@) ELSE @,
                                       !.answered = sent \/ @]
                 call == [script |-> "autoplay/autoplay.js",
                          agent |-> a, state |-> tm.state, index |-> ag.index,
                          reply |-> reply, live |-> conn.open, last |-> conn.last,
                          stale |-> conn.stale, len |-> conn.len, nth |-> after.evals]
             IN  /\ obs' = [Quiet EXCEPT
                              !.evaluated = << call >>,
                              !.out = IF sent
                                        THEN Send(a, conn, PlayerAction(tm.action, reply.value))
                                        ELSE <<>>]
                 /\ IF reply = Throw
                       THEN Uncaught(a, "timeout", tm.state)
                       ELSE /\ agents' = [agents EXCEPT
                                             ![a].conns = Live([@ EXCEPT ![c] = after])]
                            /\ UNCHANGED <<proc, thrown>>
    /\ UNCHANGED <<gameId, roster, feed, mainPc, i>>

\* The setTimeout callback of the earlier script, which calls react(data.state)
OnTimeoutEarlier(a, c, t) ==
    /\ proc = "running" /\ agents[a].conns[c].timers[t].rem = 0
    /\ LET ag == agents[a]
           conn == ag.conns[c]
           tm == conn.timers[t]
       IN  \E reply \in reactEarlier(tm.state) :
             LET sent == reply # Throw /\ reply.value # Undefined
                 after == [conn EXCEPT !.timers = Remove(@, t),
                                       !.evals = Count(@),
                                       !.sends = IF sent THEN Count(@) ELSE @,
                                       !.answered = sent \/ @]
                 call == [script |-> "unnamed/part_000",
                          agent |-> a, state |-> tm.state, index |-> ag.index,
                          reply |-> reply, live |-> conn.open, last |-> conn.last,
                          stale |-> conn.stale, len |-> conn.len, nth |-> after.evals]
             IN  /\ obs' = [Quiet EXCEPT
                              !.evaluated = << call >>,
                              !.out = IF sent
                                        THEN Send(a, conn, PlayerAction(tm.action, reply.value))
                                        ELSE <<>>]
                 /\ IF reply = Throw
                       THEN Uncaught(a, "timeout", tm.state)
                       ELSE /\ agents' = [agents EXCEPT
                                             ![a].conns = Live([@ EXCEPT ![c] = after])]
                            /\ UNCHANGED <<proc, thrown>>
    /\ UNCHANGED <<gameId, roster, feed, mainPc, i>>

\* The setTimeout(connect, 5000) callback
OnReconnect(a, t) ==
    /\ proc = "running" /\ agents[a].reconnTimers[t].rem = 0
    /\ agents' = [agents EXCEPT ![a] = connect([@ EXCEPT !.reconnTimers = Remove(@, t)], "reconnect")]
    /\ obs' = Quiet
    /\ UNCHANGED <<gameId, roster, feed, mainPc, i, proc, thrown>>

\* ------------------------------------------------------------------------
\* Time
\* ------------------------------------------------------------------------
Elapse(timers) == [j \in DOMAIN timers |-> [timers[j] EXCEPT !.rem = @ - 1]]

Due(ag) ==
    \/ \E t \in DOMAIN ag.reconnTimers : ag.reconnTimers[t].rem = 0
    \/ \E c \in DOMAIN ag.conns : \E t \in DOMAIN ag.conns[c].timers :
          ag.conns[c].timers[t].rem = 0

\* One second passes
Tick ==
    /\ proc = "running"
    /\ \A a \in DOMAIN agents : ~Due(agents[a])
    /\ agents' = [a \in DOMAIN agents |->
          [agents[a] EXCEPT
             !.reconnTimers = Elapse(@),
             !.conns = [c \in DOMAIN @ |->
                 [@[c] EXCEPT !.timers = Elapse(@),
                              !.age = IF @ >= 0 /\ @ < ACTION_DELAY THEN @ + 1 ELSE @]]]]
    /\ agents' # agents
    /\ obs' = Quiet
    /\ UNCHANGED <<gameId, roster, feed, mainPc, i, proc, thrown>>

\* ------------------------------------------------------------------------
\* Specifications
\* ------------------------------------------------------------------------
ValidId == <<"A", "B", "C", "D">>

InvalidId == <<"a", "b", "c", "d">>

Start ==
    /\ mainPc = "check" /\ i = 0 /\ proc = "running"
    /\ agents = <<>> /\ obs = Quiet /\ thrown = <<>>

Init ==
    /\ gameId \in { ValidId, InvalidId }
    /\ roster = SubSeq(players, 1, NumPlayers)
    /\ feed = FeedStates
    /\ Start

Next ==
    \/ MainCheck
    \/ MainSpawn
    \/ MainResume
    \/ \E a \in DOMAIN agents : \E w \in DOMAIN agents[a].opening : OnConnect(a, w)
    \/ \E a \in DOMAIN agents : \E w \in DOMAIN agents[a].opening : OnConnectFailed(a, w)
    \/ \E a \in DOMAIN agents : \E c \in DOMAIN agents[a].conns :
          \E msg \in Messages(feed) : OnMessage(a, c, msg)
    \/ \E a \in DOMAIN agents : \E c \in DOMAIN agents[a].conns : OnClose(a, c)
    \/ \E a \in DOMAIN agents : \E c \in DOMAIN agents[a].conns :
          \E t \in DOMAIN agents[a].conns[c].timers : OnTimeout(a, c, t)
    \/ \E a \in DOMAIN agents : \E t \in DOMAIN agents[a].reconnTimers : OnReconnect(a, t)
    \/ Tick

Spec == Init /\ [][Next]_vars

\* The pool of PoolPlayers players, the server sending one state
InitPool ==
    /\ gameId \in { ValidId, InvalidId }
    /\ roster = SubSeq(players, 1, PoolPlayers)
    /\ feed = { VotePrompt }
    /\ Start

SpecPool == InitPool /\ [][Next]_vars

\* main alone, over every argument
IdChars == { "A", "Z", "a", "1" }

\* The text the test sees when the argument is missing
NoArgument == <<"u", "n", "d", "e", "f", "i", "n", "e", "d">>

GameIds == SeqsUpTo(IdChars, MaxIdLen) \cup { NoArgument }

InitMain ==
    /\ gameId \in GameIds
    /\ roster = SubSeq(players, 1, PoolPlayers)
    /\ feed = FeedStates
    /\ Start

NextMain == MainCheck \/ MainSpawn \/ MainResume

SpecMain == InitMain /\ [][NextMain]_vars

\* One react call on every input: the pool is connected and player k has
\* received state s ACTION_DELAY seconds ago
DueTimer(s) == [rem |-> 0, state |-> s, action |-> ActionType(s), handle |-> TRUE]

Connected(name, index) == [NewAgent(name, index) EXCEPT !.conns = << NewConn >>]

Waiting(name, index, s) ==
    [NewAgent(name, index) EXCEPT
        !.conns = << [NewConn EXCEPT !.timers = << DueTimer(s) >>, !.age = ACTION_DELAY,
                                     !.last = << s >>, !.len = 1] >>]

InitReact ==
    /\ gameId = ValidId
    /\ roster = SubSeq(players, 1, PoolPlayers)
    /\ feed = ReactInputs
    /\ mainPc = "done" /\ i = Len(roster) /\ proc = "running"
    /\ obs = Quiet /\ thrown = <<>>
    /\ \E k \in DOMAIN roster : \E s \in ReactInputs :
          agents = [a \in DOMAIN roster |->
                      IF a = k THEN Waiting(roster[a], a - 1, s)
                               ELSE Connected(roster[a], a - 1)]

NextReact ==
    \E a \in DOMAIN agents : \E c \in DOMAIN agents[a].conns :
       \E t \in DOMAIN agents[a].conns[c].timers : OnTimeout(a, c, t)

SpecReact == InitReact /\ [][NextReact]_vars

\* One react call on every input, by either script
NextScripts ==
    \/ NextReact
    \/ \E a \in DOMAIN agents : \E c \in DOMAIN agents[a].conns :
          \E t \in DOMAIN agents[a].conns[c].timers : OnTimeoutEarlier(a, c, t)

SpecScripts == InitReact /\ [][NextScripts]_vars

\* ------------------------------------------------------------------------
\* Properties
\* ------------------------------------------------------------------------
\* Every connection of every player
Conns == UNION { { <<a, c>> : c \in DOMAIN agents[a].conns } : a \in DOMAIN agents }

ConnOf(ac) == agents[ac[1]].conns[ac[2]]

Sent(type) == obs.out # <<>> /\ obs.out[1].msg.type = type

\* C1, as claimed: a prompt is answered at most once, however the updates
\* that carry it are spaced: no player_action is sent for a state whose
\* prompt was already answered on this connection while every update since
\* carried that same state.
C1_OneReplyPerPrompt == Sent("player_action") => ~obs.out[1].again

\* C1, amended: within one burst (updates of one connection, each less than
\* ACTION_DELAY after the one before) at most one player_action is sent.
C1_OneReplyPerBurst == \A ac \in Conns : ConnOf(ac).sends <= 1

\* A player_action sent for a burst of several updates
C1_Witness ==
    /\ Sent("player_action") /\ obs.evaluated[1].len = 2
    /\ \E ac \in Conns : ConnOf(ac).sends = 1 /\ ConnOf(ac).timers = <<>>

\* C2, as claimed: react is called exactly once for every burst, on the
\* burst's last update: every call is the first of its burst and is given
\* the state of the connection's latest update, and a burst that is over
\* (the next one has started) got exactly one call.
C2_ExactlyOncePerBurst ==
    /\ obs.evaluated # <<>> =>
          obs.evaluated[1].nth = 1 /\ obs.evaluated[1].last = << obs.evaluated[1].state >>
    /\ obs.ended # <<>> => obs.ended[1].evals = 1

\* C2, amended: react is called at most once for a burst, and only on the
\* state of the burst's last update.
C2_AtMostOnceOnLast ==
    obs.evaluated # <<>> =>
       obs.evaluated[1].nth = 1 /\ obs.evaluated[1].last = << obs.evaluated[1].state >>

\* react called for a burst of several updates, on a prompt
C2_Witness ==
    /\ obs.evaluated # <<>> /\ obs.evaluated[1].len = 2
    /\ obs.evaluated[1].state = VotePrompt

\* C3, as claimed: a connection that has closed has no timer pending, react
\* is never called for it and nothing is sent on it.
C3_NothingAfterClose ==
    /\ \A ac \in Conns : ~ConnOf(ac).open => ConnOf(ac).timers = <<>>
    /\ obs.evaluated # <<>> => obs.evaluated[1].live
    /\ obs.out # <<>> => obs.out[1].live

\* C4, as claimed: no reachable state leaves a player unable to become
\* Connected again: the process runs, and every player created so far is
\* Connected, or has a connect attempt under way or a reconnect scheduled.
C4_AlwaysRecoverable ==
    \A a \in 1 .. i :
       /\ proc = "running" /\ a \in DOMAIN agents
       /\ \/ ConnectionState(agents[a]) \in { "Connected", "Connecting" }
          \/ agents[a].reconnTimers # <<>>

\* C5: every 'connect' event sends one player_join with the game id and the
\* player's name on the new connection, on which nothing was received or
\* sent before; player_join is sent at no other time, so it comes once per
\* connection and before any player_action of that connection.
C5_JoinOnConnect ==
    /\ obs.opened # <<>> =>
          LET a == obs.opened[1].agent
              conn == agents[a].conns[Len(agents[a].conns)]
          IN  /\ obs.out = << [agent |-> a, live |-> TRUE, again |-> FALSE,
                                msg |-> [type |-> "player_join", gameId |-> gameId,
                                         name |-> roster[a]]] >>
              /\ conn.open /\ conn.timers = <<>> /\ conn.age = -1
    /\ Sent("player_join") => obs.opened # <<>>
    /\ Sent("player_action") => obs.opened = <<>>

\* A player_join sent after a reconnect
C5_Witness ==
    /\ Sent("player_join") /\ obs.opened # <<>>
    /\ obs.opened[1].caller = "reconnect"

\* C6, as claimed: react called on a choosePlayer prompt with no candidates
\* returns no action; nothing is thrown or sent and the process runs on.
C6_EmptyChooseDeclines ==
    (obs.evaluated # <<>> /\ obs.evaluated[1].state = EmptyChoosePrompt) =>
       /\ obs.evaluated[1].reply = Return(Undefined)
       /\ obs.out = <<>> /\ thrown = <<>> /\ proc = "running"

\* C7, as claimed: no inbound message ends the process: no exception comes
\* out of the 'message' handler.
C7_InboundNeverFatal == thrown = <<>> \/ thrown[1].callback # "message"

\* The prompt kinds react has a branch for
KnownTypes ==
    { "lobby", "nightRound", "choosePlayer", "vote", "legislative", "nextRound",
      "policyPeak", "investigateParty", "vetoConsent", "gameover" }

\* C8: react called on a prompt of a kind it has no branch for returns no
\* action; nothing is thrown or sent, and the player and its connection are
\* still there.
C8_UnknownKindDeclines ==
    (/\ obs.evaluated # <<>>
     /\ obs.evaluated[1].state.action # Null
     /\ obs.evaluated[1].state.action.type \notin KnownTypes) =>
       /\ obs.evaluated[1].reply = Return(Undefined)
       /\ obs.out = <<>> /\ thrown = <<>> /\ proc = "running"
       /\ obs.evaluated[1].agent \in DOMAIN agents
       /\ obs.evaluated[1].live =>
             ConnectionState(agents[obs.evaluated[1].agent]) = "Connected"

\* react called on an unknown kind, on an open connection
C8_Witness ==
    /\ obs.evaluated # <<>> /\ obs.evaluated[1].state = UnknownPrompt
    /\ obs.evaluated[1].live /\ proc = "running"

\* The ids of the candidates a choosePlayer prompt offers
Offered(state) ==
    { state.players[c + 1].id : c \in { state.action.players[j] : j \in DOMAIN state.action.players } }

Anchored(id) == Len(id) >= 4 /\ \A j \in 1 .. 4 : id[j] \in Upper

\* C10, as claimed: once main is past its test, the pool is started exactly
\* when the game id matches ^[A-Z]{4}, and the process has exited otherwise.
C10_StartedIffAnchored ==
    (mainPc # "check" \/ proc = "exited") =>
       /\ Anchored(gameId) => proc = "running" /\ mainPc # "check"
       /\ ~Anchored(gameId) => proc = "exited"

\* C11: the game id is tested before any player is created: while main is
\* at its test, and after it has exited on a rejected id, there is no
\* player, no connection attempt and nothing sent or otherwise done; once
\* the id is accepted the running process holds one player per roster name
\* taken so far, in roster order, each with the index of its position, and
\* the whole roster when main is done.
C11_ValidatedBeforeSpawn ==
    /\ (mainPc = "check" \/ proc = "exited") => agents = <<>> /\ obs = Quiet
    /\ proc = "running" =>
          /\ Len(agents) = i
          /\ \A a \in DOMAIN agents : agents[a].name = roster[a] /\ agents[a].index = a - 1
          /\ mainPc = "done" => Len(agents) = Len(roster)

\* The whole pool created, its last player connected
C11_Witness ==
    /\ proc = "running" /\ mainPc = "done" /\ Len(agents) = PoolPlayers
    /\ agents[PoolPlayers].index = PoolPlayers - 1
    /\ ConnectionState(agents[PoolPlayers]) = "Connected"

\* C12: react is only ever called on the state of the update the player
\* received last, and an update leaves no earlier evaluation pending, due
\* or not: every pending timer of a connection holds the state of that
\* connection's last update, and the player has received no update on
\* another connection since.
C12_OnlyLatestEvaluated ==
    /\ obs.evaluated # <<>> =>
          obs.evaluated[1].last = << obs.evaluated[1].state >> /\ ~obs.evaluated[1].stale
    /\ \A ac \in Conns : \A t \in DOMAIN ConnOf(ac).timers :
          ConnOf(ac).last = << ConnOf(ac).timers[t].state >> /\ ~ConnOf(ac).stale

\* An update handled while the timer of the one before was due: that burst
\* is over with no react call
C12_Witness ==
    /\ obs.ended # <<>> /\ obs.ended[1].evals = 0
    /\ \E ac \in Conns :
          /\ ConnOf(ac).age = 0 /\ ConnOf(ac).len = 1
          /\ ConnOf(ac).last = << NextRoundPrompt >>

\* C13: a step that handles a message of a type other than update (an
\* error message included) changes nothing: every player keeps its
\* connections and their pending timers as they were, nothing is sent, react
\* is not called, and the process runs on.
C13_OtherTagsChangeNothing ==
    [][(obs'.received # <<>> /\ obs'.received[1].type # "update") =>
          /\ agents' = agents
          /\ obs'.out = <<>> /\ obs'.evaluated = <<>>
          /\ proc' = proc /\ thrown' = thrown]_vars

\* An error message handled while a timer was pending, which still is
C13_Witness ==
    /\ obs.received # <<>> /\ obs.received[1].type = "error"
    /\ \E ac \in Conns : \E t \in DOMAIN ConnOf(ac).timers :
          ConnOf(ac).timers[t].rem = 1 /\ ConnOf(ac).timers[t].handle

\* react was called on a prompt of this type
Evaluated(type) ==
    /\ obs.evaluated # <<>>
    /\ obs.evaluated[1].state.action # Null
    /\ obs.evaluated[1].state.action.type = type

\* C14: react called on a lobby prompt returns "start" when the prompt's
\* canStart is true, and that reply is sent as a player_action; it returns
\* no action, and nothing is sent, when canStart is false or absent.
C14_LobbyStartsWhenAllowed ==
    Evaluated("lobby") =>
       IF Field(obs.evaluated[1].state.action, "canStart") = Bool(TRUE)
          THEN /\ obs.evaluated[1].reply = Return(Str("start"))
               /\ Sent("player_action")
               /\ obs.out[1].msg.action = "lobby" /\ obs.out[1].msg.data = Str("start")
          ELSE obs.evaluated[1].reply = Return(Undefined) /\ obs.out = <<>>

\* react called on a lobby prompt with no canStart at all
C14_Witness ==
    /\ Evaluated("lobby")
    /\ "canStart" \notin DOMAIN obs.evaluated[1].state.action
    /\ obs.evaluated[1].reply = Return(Undefined) /\ proc = "running"

\* C15, as claimed: react called on a legislative prompt returns a veto,
\* and then the prompt has canVeto true, or a discard whose idx is at least
\* 0 and less than the number of cards of the prompt.
C15_LegislativeInRange ==
    Evaluated("legislative") =>
       LET action == obs.evaluated[1].state.action
           reply == obs.evaluated[1].reply
       IN  /\ reply.kind = "return"
           /\ reply.value.type \in { "veto", "discard" }
           /\ reply.value.type = "veto" => Field(action, "canVeto") = Bool(TRUE)
           /\ reply.value.type = "discard" =>
                  0 <= reply.value.idx /\ reply.value.idx < Len(action.cards)

\* The reply react has for the kinds it answers without choosing
Sentinel ==
    [nightRound |-> "done", nextRound |-> "next", policyPeak |-> "done",
     investigateParty |-> "done", gameover |-> "restart"]

\* C16, as claimed: react called on a nightRound, nextRound, policyPeak,
\* investigateParty or gameover prompt returns "done", "next", "done",
\* "done", "restart" respectively, whatever else the state holds and
\* whatever the index is.
C16_FixedSentinels ==
    \A type \in DOMAIN Sentinel :
       Evaluated(type) => obs.evaluated[1].reply = Return(Str(Sentinel[type]))

\* Every outcome a react call of the script can have
Replies(script, state, index) ==
    IF script = "autoplay/autoplay.js" THEN react(state, index) ELSE reactEarlier(state)

\* The states that carry the prompt of `state` with other players
SamePrompt(state) ==
    { [action |-> state.action, players |-> ps] :
         ps \in { <<>>, SubSeq(statePlayers, 1, 1), statePlayers } }

\* C17, as claimed: the reply to a vote prompt is fixed by the prompt and
\* the index: every react call with the same vote prompt and the same index
\* returns the boolean this one returned, whatever else the state holds.
C17_VoteDeterministic ==
    Evaluated("vote") =>
       \A s \in SamePrompt(obs.evaluated[1].state) :
          Replies(obs.evaluated[1].script, s, obs.evaluated[1].index) = { obs.evaluated[1].reply }

\* C17, amended: the reply to a vote prompt is a boolean, and which replies
\* are possible depends on nothing in the state but the prompt; react of
\* autoplay/autoplay.js has one possible reply for an index, the one it
\* returned.
C17_VoteOfPromptAndIndex ==
    Evaluated("vote") =>
       LET e == obs.evaluated[1]
       IN  /\ e.reply.kind = "return" /\ e.reply.value \in Flags
           /\ \A s \in SamePrompt(e.state) :
                  Replies(e.script, s, e.index) = Replies(e.script, e.state, e.index)
           /\ e.script = "autoplay/autoplay.js" =>
                  Replies(e.script, e.state, e.index) = { e.reply }

\* The second player's vote, by autoplay/autoplay.js
C17_Witness ==
    /\ Evaluated("vote") /\ obs.evaluated[1].script = "autoplay/autoplay.js"
    /\ obs.evaluated[1].index = 1 /\ obs.evaluated[1].reply = Return(Bool(FALSE))
    /\ Sent("player_action") /\ obs.out[1].msg.data = Bool(FALSE)

\* A step that handles an event of player a
AgentEvent(a) ==
    \/ \E w \in DOMAIN agents[a].opening : OnConnect(a, w) \/ OnConnectFailed(a, w)
    \/ \E c \in DOMAIN agents[a].conns :
          \/ OnClose(a, c)
          \/ \E msg \in Messages(feed) : OnMessage(a, c, msg)
          \/ \E t \in DOMAIN agents[a].conns[c].timers : OnTimeout(a, c, t)
    \/ \E t \in DOMAIN agents[a].reconnTimers : OnReconnect(a, t)

\* C18, as claimed: a step that handles an event of one player leaves
\* every other player as it was (its connections, their pending timers,
\* its reconnect timer) and leaves it running.
C18_AgentsIsolated ==
    [][\A a \in DOMAIN agents :
          AgentEvent(a) =>
             \A b \in DOMAIN agents \ { a } :
                proc' = "running" /\ b \in DOMAIN agents' /\ agents'[b] = agents[b]]_vars

\* The evaluations a player has pending, over all its connections
PendingDecisions(a) ==
    UNION { { <<c, t>> : t \in DOMAIN agents[a].conns[c].timers } : c \in DOMAIN agents[a].conns }

\* C19: every player has at most one evaluation pending, over all the
\* connections it has had; right after an update has been handled the
\* player has exactly one, with its full delay to run.
C19_OnePendingDecision ==
    /\ \A a \in DOMAIN agents : Cardinality(PendingDecisions(a)) <= 1
    /\ (obs.received # <<>> /\ obs.received[1].type = "update" /\ proc = "running") =>
          \E ct \in PendingDecisions(obs.received[1].agent) :
             agents[obs.received[1].agent].conns[ct[1]].timers[ct[2]].rem = ACTION_DELAY

\* After a close and a reconnect, a second update received within the delay
\* of the first, with one evaluation pending
C19_Witness ==
    \E ac \in Conns :
       /\ ConnOf(ac).caller = "reconnect" /\ ConnOf(ac).len = 2
       /\ Cardinality(PendingDecisions(ac[1])) = 1

\* The connections of a player that are open or being opened
Attempts(ag) ==
    Len(ag.opening) + Cardinality({ c \in DOMAIN ag.conns : ag.conns[c].open })

\* C20: every player has at most one connection open or being opened and
\* at most one reconnect timer pending, and a reconnect timer only while it
\* has no connection open or being opened.
C20_OneConnection ==
    \A a \in DOMAIN agents :
       /\ Attempts(agents[a]) <= 1
       /\ Len(agents[a].reconnTimers) <= 1
       /\ agents[a].reconnTimers # <<>> => Attempts(agents[a]) = 0

\* A connection opened by a reconnect, the only one; no timer is pending
C20_Witness ==
    \E ac \in Conns :
       /\ ConnOf(ac).open /\ ConnOf(ac).caller = "reconnect"
       /\ Attempts(agents[ac[1]]) = 1 /\ agents[ac[1]].reconnTimers = <<>>

\* The changes of connection state the lifecycle allows
Transitions ==
    { <<"Disconnected", "Connecting">>, <<"Connecting", "Connected">>,
      <<"Connecting", "Disconnected">>, <<"Connected", "Disconnected">> }

\* C21: in every step the connection state of every player stays as it is
\* or changes along Disconnected -> Connecting, Connecting -> Connected,
\* Connecting -> Disconnected or Connected -> Disconnected (a player whose
\* process has ended counts as Disconnected), and a player that is created
\* in the step is Connecting.
C21_LifecycleTransitions ==
    [][/\ \A a \in DOMAIN agents :
             LET before == ConnectionState(agents[a])
                 after == IF a \in DOMAIN agents' THEN ConnectionState(agents'[a])
                                                   ELSE "Disconnected"
             IN  before = after \/ <<before, after>> \in Transitions
       /\ \A a \in DOMAIN agents' \ DOMAIN agents :
             ConnectionState(agents'[a]) = "Connecting"]_vars

\* Round the whole loop: a connection opened by a reconnect has closed, the
\* player is Disconnected and its next reconnect is scheduled
C21_Witness ==
    \E ac \in Conns :
       /\ ~ConnOf(ac).open /\ ConnOf(ac).caller = "reconnect"
       /\ ConnectionState(agents[ac[1]]) = "Disconnected"
       /\ agents[ac[1]].reconnTimers # <<>>

\* C22: every player_action sent comes out of a react call of the same
\* step, and carries the prompt type of the state that call was given as
\* its action and the value that call returned as its data.
C22_ActionOfEvaluatedState ==
    Sent("player_action") =>
       /\ obs.evaluated # <<>>
       /\ obs.evaluated[1].reply.kind = "return"
       /\ obs.out[1].msg.action = ActionType(obs.evaluated[1].state)
       /\ obs.out[1].msg.data = obs.evaluated[1].reply.value

\* The reply to the second update of a burst
C22_Witness ==
    /\ Sent("player_action") /\ obs.evaluated # <<>> /\ obs.evaluated[1].len = 2
    /\ obs.out[1].msg.action = "nextRound" /\ obs.out[1].msg.data = Str("next")

\* C23: react called on a state with no prompt returns no action and
\* nothing is sent; once the last update of a connection carries no prompt,
\* every evaluation pending on it is of that state, and a player_action is
\* only ever sent for the prompt of the connection's last update.
C23_NoPromptNoReply ==
    /\ (obs.evaluated # <<>> /\ obs.evaluated[1].state.action = Null) =>
          /\ obs.evaluated[1].reply = Return(Undefined)
          /\ obs.out = <<>> /\ proc = "running"
    /\ \A ac \in Conns :
          (ConnOf(ac).last # <<>> /\ ConnOf(ac).last[1].action = Null) =>
             \A t \in DOMAIN ConnOf(ac).timers : ConnOf(ac).timers[t].state.action = Null
    /\ Sent("player_action") =>
          /\ obs.evaluated[1].last # <<>>
          /\ obs.evaluated[1].last[1].action # Null
          /\ obs.out[1].msg.action = obs.evaluated[1].last[1].action.type

\* react called on a state with no prompt, the second update of its burst
C23_Witness ==
    /\ obs.evaluated # <<>> /\ obs.evaluated[1].state = NoPrompt
    /\ obs.evaluated[1].len = 2 /\ obs.evaluated[1].live
    /\ obs.out = <<>> /\ proc = "running"

====
